---- MODULE Spec2Model ----
(***************************************************************************)
(* The per-target health checker of rpc-gateway                            *)
(* (internal/proxy/healthchecker.go): the HealthChecker object, the Start  *)
(* loop with its ticker, the probe goroutines that CheckAndSetHealth       *)
(* spawns, the RWMutex that guards the three state fields and the          *)
(* synchronized readers.                                                   *)
(*                                                                         *)
(* Time is abstracted to the events it causes: the ticker delivering an    *)
(* event into its channel (every Interval) and the deadline of a probe's   *)
(* context passing (Timeout after the probe began).  Either may happen at  *)
(* any moment, which covers every Interval and Timeout, Timeout > Interval *)
(* included, and every scheduling delay of a goroutine.                    *)
(*                                                                         *)
(* Above the checker: RPCGateway.Start and RPCGateway.Stop with the three  *)
(* calls each hands to flowmatic.Do, the construction of a gateway, and    *)
(* main with one startGateway goroutine per configured gateway and one     *)
(* shared metrics server.  The health check manager's ranking and the      *)
(* Router's failover loop follow the design document of the gateway.       *)
(***************************************************************************)
EXTENDS Integers, FiniteSets, Sequences, TLC

\* ---------------------------------------------------------------- bounds

\* Probes CheckAndSetHealth may spawn in one run (the Start loop itself is
\* unbounded; the guard of CheckAndSetHealth stops at this number).
MaxProbes == 3

\* Block heights and gas limits the upstream may report: 1 .. MaxBlock.
MaxBlock == 2

\* FailureThreshold and SuccessThreshold range over 1 .. MaxThreshold.
MaxThreshold == 3

\* Gateways in the configuration file: main starts 1 .. MaxGateways of them.
MaxGateways == 2

\* Targets configured for a gateway.
MaxTargets == 3

\* Configured target priorities range over 1 .. MaxPriority.
MaxPriority == 2

ProbeIds == 1 .. MaxProbes

Gateways == 1 .. MaxGateways

Targets == 1 .. MaxTargets

Priorities == 1 .. MaxPriority

\* What RPCGateway.Start and RPCGateway.Stop each drive.
Components == {"hcm", "server", "metrics"}

Values == 1 .. MaxBlock

Thresholds == 1 .. MaxThreshold

\* Threads that call the read accessors.
Readers == {"r1"}

Accessors == {"IsHealthy", "BlockNumber", "GasLimit"}

\* ----------------------------------------------------------------- state

VARIABLES
    isHealthy,     \* HealthChecker.isHealthy
    blockNumber,   \* HealthChecker.blockNumber
    gasLimit,      \* HealthChecker.gasLimit
    mu,            \* HealthChecker.mu: [writer, readers]
    startPc,       \* position of the goroutine running Start
    ctxDone,       \* the context passed to Start has been cancelled
    ticker,        \* the time.Ticker of Start: [running, C]
    probes,        \* the goroutines running checkAndSetBlockNumberHealth
    gas,           \* the goroutine running checkAndSetGasLeftHealth
    readers,       \* the threads calling IsHealthy / BlockNumber / GasLimit
    stopped,       \* Stop has returned at least once (history)
    ticksTaken,    \* ticker events the Start loop has received (history)
    failStreak,    \* completed failed probes since the last success (history)
    succStreak,    \* completed successful probes since the last failure (history)
    upstream,      \* the highest block height the upstream has reported so far
    gateways,      \* per configured gateway: its startGateway goroutine and RPCGateway
    main,          \* the goroutine running main: [pc, ctxDone]
    metricsServer, \* the metrics.Server main creates: [startCalls, stopCalls]
    router         \* the Router serving one inbound request

vars == <<isHealthy, blockNumber, gasLimit, mu, startPc, ctxDone, ticker,
          probes, gas, readers, stopped, ticksTaken, failStreak, succStreak,
          upstream, gateways, main, metricsServer, router>>

\* The state outside one health checker: its upstream's height and the
\* gateway, process and router levels.
outside == <<upstream, gateways, main, metricsServer, router>>

\* The state of one health checker with its Start loop, probes and readers.
checker == <<isHealthy, blockNumber, gasLimit, mu, startPc, ctxDone, ticker,
             probes, gas, readers, stopped, ticksTaken, failStreak, succStreak>>

\* The fields only a probe's commit may write.
healthState == <<isHealthy, blockNumber, gasLimit>>

history == <<stopped, ticksTaken, failStreak, succStreak>>

\* A goroutine that has not been spawned.
NoProbe == [pc |-> "unborn", val |-> 0, res |-> "none"]

NoReader == [pc |-> "idle", op |-> "none", ret |-> "none"]

\* NewHealthChecker without `isHealthy: true`: the flag at Go's zero value.
NewHealthCheckerZero ==
    [isHealthy |-> FALSE, blockNumber |-> 0, gasLimit |-> 0,
     mu |-> [writer |-> 0, readers |-> {}]]

\* The struct literal NewHealthChecker returns: isHealthy set, the other
\* fields at their zero values, the mutex unlocked.
NewHealthChecker ==
    [isHealthy |-> TRUE, blockNumber |-> 0, gasLimit |-> 0,
     mu |-> [writer |-> 0, readers |-> {}]]

\* The three calls flowmatic.Do is given, none of them launched.
NoTasks == [c \in Components |-> "idle"]

\* A gateway of the configuration before main has spawned its goroutine.
NoGateway ==
    [pc |-> "unborn", newErr |-> "nil", service |-> FALSE, proxy |-> FALSE,
     err |-> "nil", closed |-> FALSE,
     startPc |-> "idle", start |-> NoTasks, startErr |-> {},
     stopPc |-> "idle", stop |-> NoTasks, stopErr |-> {}]

\* A router that has no request in hand and no targets yet.
NoRouter ==
    [targets |-> <<>>, budget |-> 0, pc |-> "idle", ranking |-> <<>>,
     contacted |-> <<>>, resp |-> "none"]

\* A freshly constructed health checker that Start has not been called on.
InitChecker ==
    /\ isHealthy = NewHealthChecker.isHealthy
    /\ blockNumber = NewHealthChecker.blockNumber
    /\ gasLimit = NewHealthChecker.gasLimit
    /\ mu = NewHealthChecker.mu
    /\ startPc = "idle"
    /\ ctxDone = FALSE
    /\ ticker = [running |-> FALSE, C |-> 0]
    /\ probes = [p \in ProbeIds |-> NoProbe]
    /\ gas = NoProbe
    /\ readers = [r \in Readers |-> NoReader]
    /\ stopped = FALSE
    /\ ticksTaken = 0
    /\ failStreak = 0
    /\ succStreak = 0
    /\ upstream = 0

\* The process at the entry of main: no gateway goroutine, no metrics server
\* call, no signal yet.
InitProcess ==
    /\ gateways = [g \in Gateways |-> NoGateway]
    /\ main = [pc |-> "init", ctxDone |-> FALSE]
    /\ metricsServer = [startCalls |-> 0, stopCalls |-> 0]

Init ==
    /\ InitChecker
    /\ InitProcess
    /\ router = NoRouter

\* --------------------------------------------------------------- helpers

\* Probes spawned so far.
Launched == Cardinality({p \in ProbeIds : probes[p].pc # "unborn"})

\* A block-number probe between its spawn and its return.
InFlight(p) == probes[p].pc \in {"spawned", "call", "lock", "commit"}

\* sync.RWMutex: Lock needs no holder at all, RLock needs no writer.
CanLock == mu.writer = 0 /\ mu.readers = {}

CanRLock == mu.writer = 0

\* CheckAndSetHealth: `go h.checkAndSetBlockNumberHealth()`; the call returns
\* at once and the new goroutine is the next unused one.
CheckAndSetHealth ==
    /\ Launched < MaxProbes
    /\ probes' = [probes EXCEPT ![Launched + 1] = [NoProbe EXCEPT !.pc = "spawned"]]

\* A history counter, kept within the range the thresholds are compared in.
Bump(n) == IF n < MaxThreshold THEN n + 1 ELSE n

\* CheckAndSetHealth without `go`: Start is back at its select only when the
\* probe it called has returned.
AtSelectBlocking ==
    /\ startPc = "select"
    /\ \A p \in ProbeIds : ~InFlight(p)

\* The for/select of Start is reached as soon as CheckAndSetHealth has
\* returned, which it does without waiting for the goroutine it spawned.
AtSelect == startPc = "select"

\* ------------------------------------------------------------ Start, Stop

\* Start without its first statement: the first probe waits for a tick.
StartCallNoProbe ==
    /\ startPc = "idle"
    /\ startPc' = "newTicker"
    /\ UNCHANGED <<healthState, mu, ctxDone, ticker, probes, gas, readers, history>>
    /\ UNCHANGED outside

\* Start, first statement: one CheckAndSetHealth before any ticker exists.
StartCall ==
    /\ startPc = "idle"
    /\ CheckAndSetHealth
    /\ startPc' = "newTicker"
    /\ UNCHANGED <<healthState, mu, ctxDone, ticker, gas, readers, history>>
    /\ UNCHANGED outside

\* Start: time.NewTicker(Interval), with ticker.Stop deferred.
StartNewTicker ==
    /\ startPc = "newTicker"
    /\ ticker' = [running |-> TRUE, C |-> 0]
    /\ startPc' = "select"
    /\ UNCHANGED <<healthState, mu, ctxDone, probes, gas, readers, history>>
    /\ UNCHANGED outside

\* Start: `case <-ticker.C`, one CheckAndSetHealth for the event received.
StartTick ==
    /\ AtSelect
    /\ ticker.C = 1
    /\ CheckAndSetHealth
    /\ ticker' = [ticker EXCEPT !.C = 0]
    /\ ticksTaken' = ticksTaken + 1
    /\ UNCHANGED <<healthState, mu, startPc, ctxDone, gas, readers,
                   stopped, failStreak, succStreak>>
    /\ UNCHANGED outside

\* `case <-c.Done(): break`: the break leaves the select, not the loop.
StartDoneBreak ==
    /\ AtSelect
    /\ ctxDone
    /\ UNCHANGED vars

\* Start: `case <-c.Done()`, return; the deferred ticker.Stop runs.  When a
\* ticker event is ready as well, select may take either case.
StartDone ==
    /\ AtSelect
    /\ ctxDone
    /\ startPc' = "returned"
    /\ ticker' = [ticker EXCEPT !.running = FALSE]
    /\ UNCHANGED <<healthState, mu, ctxDone, probes, gas, readers, history>>
    /\ UNCHANGED outside

\* The caller of Start cancels the context.
CancelCtx ==
    /\ ~ctxDone
    /\ ctxDone' = TRUE
    /\ UNCHANGED <<healthState, mu, startPc, ticker, probes, gas, readers, history>>
    /\ UNCHANGED outside

\* Stop, called on a checker whose Start has been called: returns nil and
\* touches nothing of the checker.
Stop ==
    /\ startPc # "idle"
    /\ stopped' = TRUE
    /\ UNCHANGED <<healthState, mu, startPc, ctxDone, ticker, probes, gas,
                   readers, ticksTaken, failStreak, succStreak>>
    /\ UNCHANGED outside

\* Interval has passed on a running ticker: it puts an event into its channel
\* of capacity 1 (an event that finds the channel full is dropped).
TickerFire ==
    /\ ticker.running
    /\ ticker.C = 0
    /\ ticker' = [ticker EXCEPT !.C = 1]
    /\ UNCHANGED <<healthState, mu, startPc, ctxDone, probes, gas, readers, history>>
    /\ UNCHANGED outside

\* ------------------------------------------- checkAndSetBlockNumberHealth

\* h.mu.Lock() taken at the top of checkAndSetBlockNumberHealth, before the
\* network call instead of after it.
BlockBeginLocked(p) ==
    /\ probes[p].pc = "spawned"
    /\ CanLock
    /\ mu' = [mu EXCEPT !.writer = p]
    /\ probes' = [probes EXCEPT ![p].pc = "call"]
    /\ UNCHANGED <<healthState, startPc, ctxDone, ticker, gas, readers, history>>
    /\ UNCHANGED outside

\* context.WithTimeout(Background, Timeout): the deadline starts to run and
\* checkBlockNumber sends eth_blockNumber.
BlockBegin(p) ==
    /\ probes[p].pc = "spawned"
    /\ probes' = [probes EXCEPT ![p].pc = "call"]
    /\ UNCHANGED <<healthState, mu, startPc, ctxDone, ticker, gas, readers, history>>
    /\ UNCHANGED outside

\* checkBlockNumber returns (bn, nil): the goroutine goes on to mu.Lock.
BlockCallOk(p, bn) ==
    /\ probes[p].pc = "call"
    /\ probes' = [probes EXCEPT ![p] = [pc |-> "lock", val |-> bn, res |-> "ok"]]
    /\ UNCHANGED <<healthState, mu, startPc, ctxDone, ticker, gas, readers, history>>
    /\ UNCHANGED outside

\* checkAndSetBlockNumberHealth without its early return: the 0 that comes
\* with the error is stored.
BlockFailedZero ==
    /\ blockNumber' = 0
    /\ UNCHANGED <<isHealthy, gasLimit>>

\* An unhealthy flag set by the first failed probe, as a failure threshold of
\* one would have it.
BlockFailedUnhealthy ==
    /\ isHealthy' = FALSE
    /\ UNCHANGED <<blockNumber, gasLimit>>

\* What a probe whose checkBlockNumber returned (0, err) does to the three
\* fields: the early return of checkAndSetBlockNumberHealth writes nothing.
BlockFailed ==
    UNCHANGED healthState

\* checkBlockNumber returns (0, err), a transport or decoding error; the
\* deferred cancel runs and the goroutine ends.
BlockCallErr(p) ==
    /\ probes[p].pc = "call"
    /\ probes' = [probes EXCEPT ![p] = [pc |-> "done", val |-> 0, res |-> "error"]]
    /\ BlockFailed
    /\ failStreak' = Bump(failStreak)
    /\ succStreak' = 0
    /\ UNCHANGED <<mu, startPc, ctxDone, ticker, gas, readers, stopped, ticksTaken>>
    /\ UNCHANGED outside

\* The deadline of the probe's own context passes: CallContext returns
\* context.DeadlineExceeded, handled like any other error.
BlockCallDeadline(p) ==
    /\ probes[p].pc = "call"
    /\ probes' = [probes EXCEPT ![p] = [pc |-> "done", val |-> 0, res |-> "deadline"]]
    /\ BlockFailed
    /\ failStreak' = Bump(failStreak)
    /\ succStreak' = 0
    /\ UNCHANGED <<mu, startPc, ctxDone, ticker, gas, readers, stopped, ticksTaken>>
    /\ UNCHANGED outside

\* h.mu.Lock(), reached only after the network call has returned.
BlockLock(p) ==
    /\ probes[p].pc = "lock"
    /\ CanLock
    /\ mu' = [mu EXCEPT !.writer = p]
    /\ probes' = [probes EXCEPT ![p].pc = "commit"]
    /\ UNCHANGED <<healthState, startPc, ctxDone, ticker, gas, readers, history>>
    /\ UNCHANGED outside

\* h.blockNumber = blockNumber, then the deferred Unlock and cancel.
BlockCommit(p) ==
    /\ probes[p].pc = "commit"
    /\ mu.writer = p
    /\ blockNumber' = probes[p].val
    /\ mu' = [mu EXCEPT !.writer = 0]
    /\ probes' = [probes EXCEPT ![p].pc = "done"]
    /\ succStreak' = Bump(succStreak)
    /\ failStreak' = 0
    /\ UNCHANGED <<isHealthy, gasLimit, startPc, ctxDone, ticker, gas, readers,
                   stopped, ticksTaken>>
    /\ UNCHANGED outside

\* --------------------------------------------------------------- readers

\* The field an accessor returns.
Field(op) ==
    CASE op = "IsHealthy" -> isHealthy
      [] op = "BlockNumber" -> blockNumber
      [] op = "GasLimit" -> gasLimit

\* IsHealthy / BlockNumber / GasLimit: h.mu.RLock().
ReaderRLock(r, op) ==
    /\ readers[r].pc = "idle"
    /\ CanRLock
    /\ mu' = [mu EXCEPT !.readers = @ \cup {r}]
    /\ readers' = [readers EXCEPT ![r] = [pc |-> "rlocked", op |-> op, ret |-> "none"]]
    /\ UNCHANGED <<healthState, startPc, ctxDone, ticker, probes, gas, history>>
    /\ UNCHANGED outside

\* The accessor reads its field, the deferred RUnlock runs, it returns.
ReaderReturn(r) ==
    /\ readers[r].pc = "rlocked"
    /\ mu' = [mu EXCEPT !.readers = @ \ {r}]
    /\ readers' = [readers EXCEPT ![r].pc = "idle", ![r].ret = Field(readers[r].op)]
    /\ UNCHANGED <<healthState, startPc, ctxDone, ticker, probes, gas, history>>
    /\ UNCHANGED outside

\* ---------------------------------------------- checkAndSetGasLeftHealth

\* The call CheckAndSetHealth holds commented out: the goroutine is spawned,
\* context.WithTimeout(Background, Timeout) and checkGasLimit sends eth_call.
\* One such goroutine runs at a time.
GasBegin ==
    /\ gas.pc \in {"unborn", "done"}
    /\ gas' = [pc |-> "call", val |-> 0, res |-> "none"]
    /\ UNCHANGED <<healthState, mu, startPc, ctxDone, ticker, probes, readers, history>>
    /\ UNCHANGED outside

\* checkGasLimit returns (gasLimit, nil).
GasCallOk(v) ==
    /\ gas.pc = "call"
    /\ gas' = [pc |-> "lock", val |-> v, res |-> "ok"]
    /\ UNCHANGED <<healthState, mu, startPc, ctxDone, ticker, probes, readers, history>>
    /\ UNCHANGED outside

\* checkGasLimit returns an error, the deadline of the context included; the
\* goroutine goes on to mu.Lock all the same.
GasCallErr ==
    /\ gas.pc = "call"
    /\ gas' = [pc |-> "lock", val |-> 0, res |-> "error"]
    /\ UNCHANGED <<healthState, mu, startPc, ctxDone, ticker, probes, readers, history>>
    /\ UNCHANGED outside

\* h.mu.Lock().
GasLock ==
    /\ gas.pc = "lock"
    /\ CanLock
    /\ mu' = [mu EXCEPT !.writer = -1]
    /\ gas' = [gas EXCEPT !.pc = "commit"]
    /\ UNCHANGED <<healthState, startPc, ctxDone, ticker, probes, readers, history>>
    /\ UNCHANGED outside

\* On an error isHealthy = false; otherwise gasLimit is stored and
\* isHealthy = true.  Then the deferred Unlock and cancel.
GasCommit ==
    /\ gas.pc = "commit"
    /\ mu.writer = -1
    /\ IF gas.res = "ok"
       THEN /\ gasLimit' = gas.val
            /\ isHealthy' = TRUE
            /\ succStreak' = Bump(succStreak)
            /\ failStreak' = 0
       ELSE /\ isHealthy' = FALSE
            /\ failStreak' = Bump(failStreak)
            /\ succStreak' = 0
            /\ UNCHANGED gasLimit
    /\ mu' = [mu EXCEPT !.writer = 0]
    /\ gas' = [gas EXCEPT !.pc = "done"]
    /\ UNCHANGED <<blockNumber, startPc, ctxDone, ticker, probes, readers,
                   stopped, ticksTaken>>
    /\ UNCHANGED outside

\* ------------------------------------------------------------ the program

\* The steps of Start and of the probes it spawns.
NextCore ==
    \/ StartCall
    \/ StartNewTicker
    \/ StartTick
    \/ StartDone
    \/ CancelCtx
    \/ TickerFire
    \/ \E p \in ProbeIds : BlockBegin(p)
    \/ \E p \in ProbeIds : \E bn \in Values : BlockCallOk(p, bn)
    \/ \E p \in ProbeIds : BlockCallErr(p)
    \/ \E p \in ProbeIds : BlockCallDeadline(p)
    \/ \E p \in ProbeIds : BlockLock(p)
    \/ \E p \in ProbeIds : BlockCommit(p)

\* The steps of the threads that read the health state.
NextReaders ==
    \/ \E r \in Readers : \E op \in Accessors : ReaderRLock(r, op)
    \/ \E r \in Readers : ReaderReturn(r)

Next ==
    \/ NextCore
    \/ NextReaders

\* Normal operation: what Start and the accessors do in the program as built.
Spec == Init /\ [][Next]_vars

\* Normal operation with calls of Stop at any moment after Start.
NextStop ==
    \/ Next
    \/ Stop

SpecStop == Init /\ [][NextStop]_vars

\* Start and its probes with the secondary probe running beside them, as it
\* does once the call in CheckAndSetHealth is enabled.
NextGasLeft ==
    \/ NextCore
    \/ GasBegin
    \/ \E v \in Values : GasCallOk(v)
    \/ GasCallErr
    \/ GasLock
    \/ GasCommit

SpecGasLeft == Init /\ [][NextGasLeft]_vars

\* A step of a goroutine that is runnable whatever the network does: Start
\* creating its ticker or taking the cancellation, a probe beginning, a probe
\* committing, and the timer of a probe's context firing its deadline.
GoroutineStep ==
    \/ StartNewTicker
    \/ StartDone
    \/ \E p \in ProbeIds : BlockBegin(p)
    \/ \E p \in ProbeIds : BlockCallDeadline(p)
    \/ \E p \in ProbeIds : BlockCommit(p)

\* What the Go runtime guarantees: a runnable goroutine is run and a timer
\* fires, and a goroutine waiting in Lock gets the mutex once it has been
\* free often enough.  The network is not fair: a reply may never come.
Fairness ==
    /\ WF_vars(GoroutineStep)
    /\ SF_vars(\E p \in ProbeIds : BlockLock(p))

\* Start and its probes under fair scheduling.
FairSpec == Init /\ [][NextCore]_vars /\ Fairness

\* checkBlockNumber returns (bn, nil) from an upstream whose chain only
\* grows: the height it reports is never below one it reported before.
BlockCallOkMonotone(p, bn) ==
    /\ probes[p].pc = "call"
    /\ bn >= upstream
    /\ upstream' = bn
    /\ probes' = [probes EXCEPT ![p] = [pc |-> "lock", val |-> bn, res |-> "ok"]]
    /\ UNCHANGED <<healthState, mu, startPc, ctxDone, ticker, gas, readers, history>>
    /\ UNCHANGED <<gateways, main, metricsServer, router>>

\* The steps of Start and of its probes against such an upstream.
NextMonotone ==
    \/ StartCall
    \/ StartNewTicker
    \/ StartTick
    \/ StartDone
    \/ CancelCtx
    \/ TickerFire
    \/ \E p \in ProbeIds : BlockBegin(p)
    \/ \E p \in ProbeIds : \E bn \in Values : BlockCallOkMonotone(p, bn)
    \/ \E p \in ProbeIds : BlockCallErr(p)
    \/ \E p \in ProbeIds : BlockCallDeadline(p)
    \/ \E p \in ProbeIds : BlockLock(p)
    \/ \E p \in ProbeIds : BlockCommit(p)

SpecMonotone == Init /\ [][NextMonotone]_vars

\* ------------------------------------------------ RPCGateway: Start, Stop

\* Wrap with every error turned into a non-nil one, as fmt.Errorf would.
WrapAlways(err, msg) == msg

\* pkg/errors Wrap: nil for a nil error, otherwise an error that carries the
\* message (the cause it wraps is not kept here).
Wrap(err, msg) == IF err = "nil" THEN "nil" ELSE msg

StartMessage ==
    [hcm |-> "failed to start health check manager",
     server |-> "failed to start rpc-gateway",
     metrics |-> "failed to start metrics server"]

StopMessage ==
    [hcm |-> "failed to stop health check manager",
     server |-> "failed to stop rpc-gateway",
     metrics |-> "failed to stop metrics server"]

\* A call flowmatic.Do was given has returned.
Returned(tasks, c) == tasks[c] \in {"nil", "err"}

\* flowmatic.Do returns when every call has returned.
AllReturned(tasks) == \A c \in Components : Returned(tasks, c)

\* The value flowmatic.Do returns: the errors of its calls joined, here the
\* set of them, which is empty for a nil error.
Do(tasks, message) ==
    {Wrap(tasks[c], message[c]) : c \in {d \in Components : Returned(tasks, d)}}
        \ {"nil"}

\* The three calls made one after the other, the next one only when the one
\* before it has returned.
LaunchInTurn == [c \in Components |-> IF c = "hcm" THEN "run" ELSE "idle"]

\* flowmatic.Do starting: each of the three calls in a goroutine of its own.
Launch == [c \in Components |-> "run"]

\* RPCGateway.Start called on a gateway by whoever holds it.
RPCGatewayStart(g) ==
    /\ gateways[g].pc = "held"
    /\ gateways[g].startPc = "idle"
    /\ gateways' = [gateways EXCEPT ![g].startPc = "running", ![g].start = Launch]
    /\ UNCHANGED <<checker, upstream, main, metricsServer, router>>

\* r.hcm.Start(c) returns: the manager has launched its checkers, or failed.
StartHcm(g, res) ==
    /\ gateways[g].start["hcm"] = "run"
    /\ gateways' = [gateways EXCEPT ![g].start["hcm"] = res]
    /\ UNCHANGED <<checker, upstream, main, metricsServer, router>>

\* r.server.ListenAndServe(): ErrServerClosed at once on a closed server, an
\* error when it cannot listen, and otherwise it serves and does not return.
StartListenAndServe(g, canListen) ==
    /\ gateways[g].start["server"] = "run"
    /\ gateways' = [gateways EXCEPT ![g].start["server"] =
                       IF gateways[g].closed \/ ~canListen THEN "err" ELSE "serving"]
    /\ UNCHANGED <<checker, upstream, main, metricsServer, router>>

\* A serving ListenAndServe returns ErrServerClosed once the server is closed.
ListenAndServeClosed(g) ==
    /\ gateways[g].start["server"] = "serving"
    /\ gateways[g].closed
    /\ gateways' = [gateways EXCEPT ![g].start["server"] = "err"]
    /\ UNCHANGED <<checker, upstream, main, metricsServer, router>>

\* r.metrics.Start() on the metrics server the gateway was given: it fails,
\* returns nil, or serves and does not return.
StartMetrics(g, res) ==
    /\ gateways[g].start["metrics"] = "run"
    /\ gateways' = [gateways EXCEPT ![g].start["metrics"] = res]
    /\ metricsServer' = [metricsServer EXCEPT !.startCalls = @ + 1]
    /\ UNCHANGED <<checker, upstream, main, router>>

\* A serving metrics.Start returns once the metrics server has been stopped.
StartMetricsStopped(g, res) ==
    /\ gateways[g].start["metrics"] = "serving"
    /\ metricsServer.stopCalls > 0
    /\ gateways' = [gateways EXCEPT ![g].start["metrics"] = res]
    /\ UNCHANGED <<checker, upstream, main, metricsServer, router>>

\* RPCGateway.Start returns what flowmatic.Do returns.
RPCGatewayStartReturn(g) ==
    /\ gateways[g].startPc = "running"
    /\ AllReturned(gateways[g].start)
    /\ gateways' = [gateways EXCEPT ![g].startPc = "returned",
                                    ![g].startErr = Do(gateways[g].start, StartMessage)]
    /\ UNCHANGED <<checker, upstream, main, metricsServer, router>>

\* RPCGateway.Stop called on a gateway by whoever holds it.
RPCGatewayStop(g) ==
    /\ gateways[g].pc = "held"
    /\ gateways[g].stopPc = "idle"
    /\ gateways' = [gateways EXCEPT ![g].stopPc = "running", ![g].stop = Launch]
    /\ UNCHANGED <<checker, upstream, main, metricsServer, router>>

\* r.hcm.Stop(c) returns.
StopHcm(g, res) ==
    /\ gateways[g].stop["hcm"] = "run"
    /\ gateways' = [gateways EXCEPT ![g].stop["hcm"] = res]
    /\ UNCHANGED <<checker, upstream, main, metricsServer, router>>

\* r.server.Close(): the server is closed whatever Close returns.
StopServerClose(g, res) ==
    /\ gateways[g].stop["server"] = "run"
    /\ gateways' = [gateways EXCEPT ![g].stop["server"] = res, ![g].closed = TRUE]
    /\ UNCHANGED <<checker, upstream, main, metricsServer, router>>

\* r.metrics.Stop() on the metrics server the gateway was given.
StopMetrics(g, res) ==
    /\ gateways[g].stop["metrics"] = "run"
    /\ gateways' = [gateways EXCEPT ![g].stop["metrics"] = res]
    /\ metricsServer' = [metricsServer EXCEPT !.stopCalls = @ + 1]
    /\ UNCHANGED <<checker, upstream, main, router>>

\* RPCGateway.Stop returns what flowmatic.Do returns.
RPCGatewayStopReturn(g) ==
    /\ gateways[g].stopPc = "running"
    /\ AllReturned(gateways[g].stop)
    /\ gateways' = [gateways EXCEPT ![g].stopPc = "returned",
                                    ![g].stopErr = Do(gateways[g].stop, StopMessage)]
    /\ UNCHANGED <<checker, upstream, main, metricsServer, router>>

\* The calls flowmatic.Do runs for Start and for Stop of a gateway.
NextCalls(g) ==
    \/ \E res \in {"nil", "err"} : StartHcm(g, res)
    \/ \E canListen \in BOOLEAN : StartListenAndServe(g, canListen)
    \/ ListenAndServeClosed(g)
    \/ \E res \in {"nil", "err", "serving"} : StartMetrics(g, res)
    \/ \E res \in {"nil", "err"} : StartMetricsStopped(g, res)
    \/ RPCGatewayStartReturn(g)
    \/ \E res \in {"nil", "err"} : StopHcm(g, res)
    \/ \E res \in {"nil", "err"} : StopServerClose(g, res)
    \/ \E res \in {"nil", "err"} : StopMetrics(g, res)
    \/ RPCGatewayStopReturn(g)

\* One RPCGateway that NewRPCGateway has returned, held by a caller that may
\* call Start and Stop on it, each once, at any moment and from any goroutine.
InitGateway ==
    /\ InitChecker
    /\ gateways = [g \in Gateways |->
                     IF g = 1
                     THEN [NoGateway EXCEPT !.pc = "held", !.service = TRUE, !.proxy = TRUE]
                     ELSE NoGateway]
    /\ main = [pc |-> "init", ctxDone |-> FALSE]
    /\ metricsServer = [startCalls |-> 0, stopCalls |-> 0]
    /\ router = NoRouter

NextGateway ==
    \/ RPCGatewayStart(1)
    \/ RPCGatewayStop(1)
    \/ NextCalls(1)

SpecGateway == InitGateway /\ [][NextGateway]_vars

\* ------------------------------------------------- construction and main

\* NewHealthChecker as a call: rpc.Dial fails and the caller gets (nil, err),
\* or the caller gets the checker and a nil error.  A pointer is the set of
\* what it points to, empty for nil.
NewHealthCheckerResult(dialOk) ==
    IF dialOk
    THEN [checker |-> {NewHealthChecker}, err |-> "nil"]
    ELSE [checker |-> {}, err |-> "dial"]

\* NewHealthCheckManager: one checker per configured target; the first
\* construction that fails makes the whole construction fail.
NewHealthCheckManager(dial) ==
    LET made == [t \in Targets |-> NewHealthCheckerResult(dial[t])]
        failed == {t \in Targets : made[t].err # "nil"}
    IN  IF failed # {}
        THEN [hcm |-> {}, err |-> made[CHOOSE t \in failed : \A u \in failed : t <= u].err]
        ELSE [hcm |-> {[t \in Targets |-> made[t].checker]}, err |-> "nil"]

\* NewRPCGateway that goes on to build the proxy and the gateway when the
\* manager could not be constructed.
NewRPCGatewayUnchecked(dial, proxyErr) ==
    IF proxyErr # "nil"
    THEN [service |-> FALSE, proxy |-> FALSE, err |-> Wrap(proxyErr, "proxy failed")]
    ELSE [service |-> TRUE, proxy |-> TRUE, err |-> "nil"]

\* NewRPCGateway: the manager first and (nil, err) when it fails, then the
\* proxy and (nil, err) when it fails, then the gateway.
NewRPCGateway(dial, proxyErr) ==
    LET manager == NewHealthCheckManager(dial)
    IN  IF manager.err # "nil"
        THEN [service |-> FALSE, proxy |-> FALSE,
              err |-> Wrap(manager.err, "healthcheckmanager failed")]
        ELSE IF proxyErr # "nil"
        THEN [service |-> FALSE, proxy |-> FALSE, err |-> Wrap(proxyErr, "proxy failed")]
        ELSE [service |-> TRUE, proxy |-> TRUE, err |-> "nil"]

\* NewRPCGatewayFromConfigFile: load the gateway's file, then NewRPCGateway.
NewRPCGatewayFromConfigFile(loadErr, dial, proxyErr) ==
    IF loadErr # "nil"
    THEN [service |-> FALSE, proxy |-> FALSE, err |-> Wrap(loadErr, "failed to load config")]
    ELSE NewRPCGateway(dial, proxyErr)

\* main: the configuration file cannot be loaded and the action returns.
MainLoadConfigFails ==
    /\ main.pc = "init"
    /\ main' = [main EXCEPT !.pc = "returned"]
    /\ UNCHANGED <<checker, upstream, gateways, metricsServer, router>>

\* main: one metrics server, then wg.Add(1) and a goroutine for each of the
\* n gateways of the configuration.
MainSpawn(n) ==
    /\ main.pc = "init"
    /\ gateways' = [g \in Gateways |->
                      IF g <= n THEN [NoGateway EXCEPT !.pc = "new"] ELSE NoGateway]
    /\ main' = [main EXCEPT !.pc = "wait"]
    /\ UNCHANGED <<checker, upstream, metricsServer, router>>

\* SIGINT or SIGTERM arrives: the context of signal.NotifyContext is done.
Signal ==
    /\ main.pc # "returned"
    /\ ~main.ctxDone
    /\ main' = [main EXCEPT !.ctxDone = TRUE]
    /\ UNCHANGED <<checker, upstream, gateways, metricsServer, router>>

\* startGateway: NewRPCGatewayFromConfigFile, and the return on its error.
startGatewayNew(g, loadErr, dial, proxyErr) ==
    /\ gateways[g].pc = "new"
    /\ LET made == NewRPCGatewayFromConfigFile(loadErr, dial, proxyErr)
       IN  gateways' = [gateways EXCEPT
                          ![g].newErr = made.err,
                          ![g].service = made.service,
                          ![g].proxy = made.proxy,
                          ![g].err = Wrap(made.err, "rpc-gateway failed"),
                          ![g].pc = IF made.err # "nil" THEN "done" ELSE "start"]
    /\ UNCHANGED <<checker, upstream, main, metricsServer, router>>

\* startGateway: service.Start(ctx) is called.
startGatewayStart(g) ==
    /\ gateways[g].pc = "start"
    /\ gateways' = [gateways EXCEPT ![g].pc = "inStart",
                                    ![g].startPc = "running",
                                    ![g].start = Launch]
    /\ UNCHANGED <<checker, upstream, main, metricsServer, router>>

\* startGateway: service.Start has returned; on an error startGateway returns
\* it wrapped, otherwise it goes on to wait for the context.
startGatewayStarted(g) ==
    /\ gateways[g].pc = "inStart"
    /\ gateways[g].startPc = "returned"
    /\ gateways' = [gateways EXCEPT
                      ![g].err = IF gateways[g].startErr # {}
                                 THEN "cannot start service" ELSE "nil",
                      ![g].pc = IF gateways[g].startErr # {} THEN "done" ELSE "waitCtx"]
    /\ UNCHANGED <<checker, upstream, main, metricsServer, router>>

\* startGateway: `<-ctx.Done()` is passed and service.Stop(ctx) is called.
startGatewayStop(g) ==
    /\ gateways[g].pc = "waitCtx"
    /\ main.ctxDone
    /\ gateways' = [gateways EXCEPT ![g].pc = "inStop",
                                    ![g].stopPc = "running",
                                    ![g].stop = Launch]
    /\ UNCHANGED <<checker, upstream, main, metricsServer, router>>

\* startGateway: service.Stop has returned and startGateway returns its
\* error wrapped.
startGatewayStopped(g) ==
    /\ gateways[g].pc = "inStop"
    /\ gateways[g].stopPc = "returned"
    /\ gateways' = [gateways EXCEPT
                      ![g].err = IF gateways[g].stopErr # {}
                                 THEN "cannot stop service" ELSE "nil",
                      ![g].pc = "done"]
    /\ UNCHANGED <<checker, upstream, main, metricsServer, router>>

\* main: wg.Wait() returns when every goroutine has run its wg.Done().
MainReturn ==
    /\ main.pc = "wait"
    /\ \A g \in Gateways : gateways[g].pc \in {"unborn", "done"}
    /\ main' = [main EXCEPT !.pc = "returned"]
    /\ UNCHANGED <<checker, upstream, gateways, metricsServer, router>>

\* The steps of the process that can be taken in some run of it.
NextMain ==
    \/ MainLoadConfigFails
    \/ \E n \in 0 .. MaxGateways : MainSpawn(n)
    \/ Signal
    \/ \E g \in Gateways : \E loadErr \in {"nil", "yaml"} :
         \E dial \in [Targets -> BOOLEAN] : \E proxyErr \in {"nil", "proxy"} :
            startGatewayNew(g, loadErr, dial, proxyErr)
    \/ \E g \in Gateways : startGatewayStart(g)
    \/ \E g \in Gateways : \E res \in {"nil", "err"} : StartHcm(g, res)
    \/ \E g \in Gateways : \E canListen \in BOOLEAN : StartListenAndServe(g, canListen)
    \/ \E g \in Gateways : \E res \in {"nil", "err", "serving"} : StartMetrics(g, res)
    \/ \E g \in Gateways : RPCGatewayStartReturn(g)
    \/ \E g \in Gateways : startGatewayStarted(g)
    \/ MainReturn

SpecMain == Init /\ [][NextMain]_vars

\* Every statement of the process: NextMain and the rest of startGateway
\* with the calls of RPCGateway.Stop.  The process never reaches the rest:
\* ListenAndServe never returns nil, so Start never does.
NextProcess ==
    \/ NextMain
    \/ \E g \in Gateways : startGatewayStop(g)
    \/ \E g \in Gateways : startGatewayStopped(g)
    \/ \E g \in Gateways : NextCalls(g)

SpecProcess == Init /\ [][NextProcess]_vars

\* startGateway never gets past service.Start with a nil error.
StopIsNeverReached ==
    \A g \in Gateways :
        /\ gateways[g].pc \notin {"waitCtx", "inStop"}
        /\ gateways[g].stopPc = "idle"

\* ---------------------------------------------- rankedTargets, the Router

\* The elements of a sequence.
Range(seq) == {seq[i] : i \in DOMAIN seq}

Min(a, b) == IF a <= b THEN a ELSE b

\* A preference that does not look at the health flag.
PreferredIgnoringHealth(ts, a, b) ==
    IF ts[a].priority # ts[b].priority THEN ts[a].priority > ts[b].priority
    ELSE IF ts[a].blockNumber # ts[b].blockNumber
    THEN ts[a].blockNumber > ts[b].blockNumber
    ELSE a < b

\* Target a is preferred to target b: a Healthy one to an Unhealthy one, then
\* the higher configured priority, then the higher committed block number,
\* then the order of the configuration.
Preferred(ts, a, b) ==
    IF ts[a].healthy # ts[b].healthy THEN ts[a].healthy
    ELSE IF ts[a].priority # ts[b].priority THEN ts[a].priority > ts[b].priority
    ELSE IF ts[a].blockNumber # ts[b].blockNumber
    THEN ts[a].blockNumber > ts[b].blockNumber
    ELSE a < b

RECURSIVE Ranked(_, _)
\* The targets of `rest` in descending preference.
Ranked(ts, rest) ==
    IF rest = {} THEN <<>>
    ELSE LET best == CHOOSE a \in rest : \A b \in rest \ {a} : Preferred(ts, a, b)
         IN  <<best>> \o Ranked(ts, rest \ {best})

\* HealthCheckManager.rankedTargets(): a snapshot of all targets, ranked
\* from the state each checker has committed.
RankedTargets(ts) == Ranked(ts, DOMAIN ts)

\* Only the Healthy targets of the ranking.
HealthyCandidates(ts) ==
    SelectSeq(RankedTargets(ts), LAMBDA t : ts[t].healthy)

\* The targets the Router may forward a request to: the whole ranking, the
\* Unhealthy targets at its end included.
Candidates(ts) == RankedTargets(ts)

\* The first target of the ranking, tried or not.
FirstTarget == router.ranking[1]

\* The highest-ranked target the request has not been forwarded to.
NextTarget ==
    LET untried == {i \in DOMAIN router.ranking :
                       router.ranking[i] \notin Range(router.contacted)}
    IN  router.ranking[CHOOSE i \in untried : \A j \in untried : i <= j]

\* Every target of the ranking has been tried in this request.
AllTried == Range(router.ranking) \subseteq Range(router.contacted)

\* rankedTargets() is called.
RankTargets ==
    /\ router.pc = "idle"
    /\ router' = [router EXCEPT !.ranking = RankedTargets(router.targets),
                                !.pc = "ranked"]
    /\ UNCHANGED <<checker, upstream, gateways, main, metricsServer>>

\* A request arrives: a fresh ranking and a fresh RetryBudget (the attempts
\* left are budget - Len(contacted), the tried set is Range(contacted)).
RouterReceive ==
    /\ router.pc = "idle"
    /\ router' = [router EXCEPT !.ranking = Candidates(router.targets),
                                !.contacted = <<>>,
                                !.resp = "none",
                                !.pc = "forwarding"]
    /\ UNCHANGED <<checker, upstream, gateways, main, metricsServer>>

\* One forwarding attempt: to the next target, which answers (the answer is
\* returned to the caller) or fails (the target is marked tried).
RouterForward(ok) ==
    /\ router.pc = "forwarding"
    /\ Len(router.contacted) < router.budget
    /\ ~AllTried
    /\ router' = [router EXCEPT !.contacted = Append(@, NextTarget),
                                !.resp = IF ok THEN "upstream" ELSE @,
                                !.pc = IF ok THEN "done" ELSE @]
    /\ UNCHANGED <<checker, upstream, gateways, main, metricsServer>>

\* No attempt is left or no target is left: a gateway failure is returned.
RouterExhausted ==
    /\ router.pc = "forwarding"
    /\ Len(router.contacted) = router.budget \/ AllTried
    /\ router' = [router EXCEPT !.resp = "gateway failure", !.pc = "done"]
    /\ UNCHANGED <<checker, upstream, gateways, main, metricsServer>>

\* The health state every checker may have committed, for every configuration
\* of priorities.
TargetStates == [priority : Priorities, healthy : BOOLEAN, blockNumber : Values]

InitRank ==
    /\ InitChecker
    /\ InitProcess
    /\ \E ts \in [Targets -> TargetStates] : router = [NoRouter EXCEPT !.targets = ts]

SpecRank == InitRank /\ [][RankTargets]_vars

\* The Router with a retry budget of 1 .. MaxTargets + 1 in front of targets
\* of every health and priority (equal block numbers, so that the order of
\* the configuration breaks the ties).
InitRouter ==
    /\ InitChecker
    /\ InitProcess
    /\ \E h \in [Targets -> BOOLEAN] : \E pr \in [Targets -> Priorities] :
         \E budget \in 1 .. MaxTargets + 1 :
            router = [NoRouter EXCEPT
                        !.targets = [t \in Targets |->
                                       [priority |-> pr[t], healthy |-> h[t],
                                        blockNumber |-> 1]],
                        !.budget = budget]

NextRouter ==
    \/ RouterReceive
    \/ \E ok \in BOOLEAN : RouterForward(ok)
    \/ RouterExhausted

SpecRouter == InitRouter /\ [][NextRouter]_vars

\* ================================================================ claims

\* No probe, of either kind, has committed a result yet.
NoCommitYet ==
    /\ \A p \in ProbeIds : ~(probes[p].pc = "done" /\ probes[p].res = "ok")
    /\ gas.pc # "done"

\* Every probe that has come back so far has failed.
OnlyFailuresSoFar ==
    /\ \A p \in ProbeIds : probes[p].res # "ok"
    /\ gas.res # "ok"

\* C1: starting from Healthy, for every FailureThreshold ft >= 1, once ft
\* consecutive block-number probes have failed IsHealthy() is false, and
\* while fewer than ft have failed it is still true.
C1_FailureThresholdTrips ==
    \A ft \in Thresholds :
        OnlyFailuresSoFar => (isHealthy <=> failStreak < ft)

C3_OneProbeInFlight ==
    Cardinality({p \in ProbeIds : InFlight(p)}) <= 1

\* C4: while a probe waits on its network call, the Start loop at its select
\* can take a pending ticker event and launch the next probe (as long as the
\* model has a goroutine left to spawn), and can take the cancellation.
C4_LoopNeverBlocked ==
    (\E p \in ProbeIds : probes[p].pc = "call") =>
        /\ (startPc = "select" /\ ticker.C = 1 /\ Launched < MaxProbes)
               => ENABLED StartTick
        /\ (startPc = "select" /\ ctxDone) => ENABLED StartDone

\* The second probe was launched while the first still waits for its reply.
C4_Witness ==
    /\ probes[1].pc = "call"
    /\ probes[2].pc = "call"

\* The mutex is held for writing only by a probe in its commit.
LockHeldOnlyToCommit ==
    /\ mu.writer \in ProbeIds => probes[mu.writer].pc = "commit"
    /\ mu.writer = -1 => gas.pc = "commit"
    /\ \A p \in ProbeIds : probes[p].pc \in {"spawned", "call", "lock"} => mu.writer # p

C6_OneProbePerTick ==
    /\ Launched = (IF startPc = "idle" THEN 0 ELSE 1) + ticksTaken
    /\ startPc \in {"idle", "newTicker"} => (~ticker.running /\ ticker.C = 0 /\ ticksTaken = 0)

\* Start has received a ticker event for every probe but the first.
C6_Witness ==
    /\ Launched = MaxProbes
    /\ ticksTaken = MaxProbes - 1
    /\ ticksTaken >= 2

\* C7: once the context is cancelled, a Start that was called returns, and
\* the probes then in flight come to an end (each at the latest when its own
\* deadline passes); after Start has returned no probe is launched.
C7_CancelStopsLoop ==
    /\ (ctxDone /\ startPc # "idle")
           ~> (startPc = "returned" /\ \A p \in ProbeIds : ~InFlight(p))
    /\ [][startPc = "returned" => (startPc' = "returned" /\ Launched' = Launched)]_vars

\* Start has returned on cancellation while a probe is still on the network.
C7_Witness ==
    /\ ctxDone
    /\ startPc = "returned"
    /\ \E p \in ProbeIds : probes[p].pc = "call"

\* C8: once Stop has returned, no further probe is started and blockNumber,
\* gasLimit and isHealthy are not modified again; a further Stop changes
\* nothing.
C8_NothingAfterStop ==
    [][stopped => /\ Launched' = Launched
                  /\ isHealthy' = isHealthy
                  /\ blockNumber' = blockNumber
                  /\ gasLimit' = gasLimit
                  /\ stopped']_vars

\* C9: until the first probe has committed, the checker is Healthy with
\* block number 0 and gas limit 0, and that is what the accessors return.
C9_InitiallyHealthy ==
    NoCommitYet =>
        /\ isHealthy
        /\ blockNumber = 0
        /\ gasLimit = 0
        /\ \A r \in Readers :
              (readers[r].pc = "idle" /\ readers[r].op # "none") =>
                  IF readers[r].op = "IsHealthy"
                  THEN readers[r].ret = TRUE
                  ELSE readers[r].ret = 0

\* IsHealthy() has returned while the first probe is on the network and
\* nothing has been committed.
C9_Witness ==
    /\ NoCommitYet
    /\ probes[1].pc = "call"
    /\ \E r \in Readers : readers[r].pc = "idle" /\ readers[r].op = "IsHealthy"

\* C10: the commit of a successful block-number probe stores the block
\* number the probe received; a probe that ends on an error or on its
\* deadline leaves blockNumber as it was.
C10_BlockNumberRecorded ==
    [][\A p \in ProbeIds :
          /\ (probes[p].pc = "commit" /\ probes'[p].pc = "done")
                 => (probes[p].res = "ok" /\ blockNumber' = probes[p].val)
          /\ (probes[p].pc = "call" /\ probes'[p].pc = "done")
                 => (probes'[p].res \in {"error", "deadline"} /\ blockNumber' = blockNumber)
          /\ (probes[p].pc = "call" /\ probes'[p].pc = "lock")
                 => blockNumber' = blockNumber]_vars

\* A probe has committed the highest block number and a later probe has
\* failed on its deadline: the stored number is still the committed one.
C10_Witness ==
    /\ blockNumber = MaxBlock
    /\ failStreak >= 1
    /\ \E p \in ProbeIds : probes[p].pc = "done" /\ probes[p].res = "ok" /\ probes[p].val = MaxBlock
    /\ \E p \in ProbeIds : probes[p].pc = "done" /\ probes[p].res = "deadline"

C19_LatestProbeWins ==
    [][blockNumber' >= blockNumber]_vars

\* C11: RPCGateway.Stop launches all three teardowns whatever any of them
\* returns (each one still to be made can be made; by the time Stop returns
\* every one has returned, the server is closed and metrics.Stop was called),
\* and the error Stop returns is non-nil exactly when one of them failed.
C11_StopAttemptsAll ==
    \A g \in Gateways :
        LET gw == gateways[g] IN
        /\ gw.stopPc # "idle" => \A c \in Components : gw.stop[c] # "idle"
        /\ gw.stop["hcm"] = "run" => ENABLED StopHcm(g, "nil")
        /\ gw.stop["server"] = "run" => ENABLED StopServerClose(g, "nil")
        /\ gw.stop["metrics"] = "run" => ENABLED StopMetrics(g, "nil")
        /\ gw.stopPc = "returned" =>
              /\ AllReturned(gw.stop)
              /\ gw.closed
              /\ metricsServer.stopCalls >= 1
              /\ (gw.stopErr # {}) <=> (\E c \in Components : gw.stop[c] = "err")
              /\ gw.stopErr = {StopMessage[c] : c \in {d \in Components : gw.stop[d] = "err"}}

\* Stop has returned the error of server.Close alone: the two other
\* teardowns were made and succeeded.
C11_Witness ==
    /\ gateways[1].stopPc = "returned"
    /\ gateways[1].stop = [hcm |-> "nil", server |-> "err", metrics |-> "nil"]
    /\ gateways[1].stopErr = {"failed to stop rpc-gateway"}

\* C12: RPCGateway.Start launches the manager, the HTTP server and the metrics
\* server together; a call still to be made can be made whatever the others
\* have returned; and when Start returns, every call has returned and the
\* error it returns is non-nil exactly when one of them failed.
C12_StartAggregates ==
    \A g \in Gateways :
        LET gw == gateways[g] IN
        /\ gw.startPc # "idle" => \A c \in Components : gw.start[c] # "idle"
        /\ gw.start["hcm"] = "run" => ENABLED StartHcm(g, "nil")
        /\ gw.start["server"] = "run" => ENABLED StartListenAndServe(g, TRUE)
        /\ gw.start["metrics"] = "run" => ENABLED StartMetrics(g, "nil")
        /\ gw.startPc = "returned" =>
              /\ AllReturned(gw.start)
              /\ (gw.startErr # {}) <=> (\E c \in Components : gw.start[c] = "err")
              /\ gw.startErr = {StartMessage[c] : c \in {d \in Components : gw.start[d] = "err"}}

\* The metrics server has failed to start, the manager has started and the
\* HTTP server, started as well, has returned only when it was closed: Start
\* has returned both errors.
C12_Witness ==
    /\ gateways[1].startPc = "returned"
    /\ gateways[1].start = [hcm |-> "nil", server |-> "err", metrics |-> "err"]
    /\ gateways[1].closed
    /\ gateways[1].startErr =
           {"failed to start rpc-gateway", "failed to start metrics server"}

\* C13: a construction error ends that gateway and no other.  NewHealthChecker
\* returns no checker and an error when the dial fails; NewRPCGateway returns
\* no gateway and an error when a target of the manager cannot be dialled;
\* startGateway then returns "rpc-gateway failed" with no proxy built, Start
\* and Stop never called; every other gateway can still take its next step;
\* and main returns only when every gateway goroutine has returned.
C13_ConstructionErrorIsLocal ==
    /\ NewHealthCheckerResult(FALSE).checker = {}
    /\ NewHealthCheckerResult(FALSE).err # "nil"
    /\ \A dial \in [Targets -> BOOLEAN] : \A proxyErr \in {"nil", "proxy"} :
          (\E t \in Targets : ~dial[t]) =>
              NewRPCGateway(dial, proxyErr) =
                  [service |-> FALSE, proxy |-> FALSE,
                   err |-> "healthcheckmanager failed"]
    /\ \A g \in Gateways :
          gateways[g].newErr # "nil" =>
              /\ gateways[g].pc = "done"
              /\ gateways[g].err = "rpc-gateway failed"
              /\ ~gateways[g].service
              /\ ~gateways[g].proxy
              /\ gateways[g].startPc = "idle"
              /\ gateways[g].stopPc = "idle"
    /\ \A g \in Gateways :
          /\ gateways[g].pc = "new" =>
                ENABLED startGatewayNew(g, "nil", [t \in Targets |-> TRUE], "nil")
          /\ gateways[g].pc = "start" => ENABLED startGatewayStart(g)
          /\ gateways[g].start["server"] = "run" => ENABLED StartListenAndServe(g, TRUE)
    /\ main.pc = "returned" => \A g \in Gateways : gateways[g].pc \in {"unborn", "done"}

\* The manager of gateway 1 could not be constructed and startGateway has
\* returned for it, while the HTTP server of gateway 2 serves and main waits.
C13_Witness ==
    /\ gateways[1].newErr = "healthcheckmanager failed"
    /\ gateways[1].pc = "done"
    /\ gateways[2].start["server"] = "serving"
    /\ main.pc = "wait"

\* C18: a gateway whose service.Start was called has had service.Stop called
\* by the time its startGateway has returned.
C18_StartedGatewaysAreStopped ==
    \A g \in Gateways :
        (gateways[g].pc = "done" /\ gateways[g].startPc # "idle")
            => gateways[g].stopPc # "idle"

\* C20: the one metrics server of the process has Start called at most once
\* and Stop called at most once.
C20_MetricsLifecycleOnce ==
    /\ metricsServer.startCalls <= 1
    /\ metricsServer.stopCalls <= 1

\* Targets 1, 2, 3 as A (priority 1, healthy, block 100), B (priority 2,
\* healthy, block 105) and C (priority 3, unhealthy).
ScenarioABC ==
    <<[priority |-> 1, healthy |-> TRUE, blockNumber |-> 100],
      [priority |-> 2, healthy |-> TRUE, blockNumber |-> 105],
      [priority |-> 3, healthy |-> FALSE, blockNumber |-> 0]>>

\* C14: rankedTargets() returns every target exactly once, every Healthy
\* target ahead of every Unhealthy one, and targets of equal health by
\* priority and, at equal priority, by descending block number; for A, B, C
\* of the scenario it returns [B, A, C].
C14_RankedTargetsOrder ==
    /\ RankedTargets(ScenarioABC) = <<2, 1, 3>>
    /\ router.pc = "ranked" =>
          LET r == router.ranking
              ts == router.targets
          IN  /\ Len(r) = MaxTargets
              /\ Range(r) = Targets
              /\ \A i, j \in DOMAIN r :
                    i < j =>
                       /\ ts[r[i]].healthy \/ ~ts[r[j]].healthy
                       /\ ts[r[i]].healthy = ts[r[j]].healthy =>
                             /\ ts[r[i]].priority >= ts[r[j]].priority
                             /\ ts[r[i]].priority = ts[r[j]].priority =>
                                   ts[r[i]].blockNumber >= ts[r[j]].blockNumber

\* A ranking in which an Unhealthy target of the highest priority and block
\* number comes after a Healthy target of the lowest ones.
C14_Witness ==
    /\ router.pc = "ranked"
    /\ \E a, b \in Targets :
          /\ router.targets[a].healthy /\ ~router.targets[b].healthy
          /\ router.targets[a].priority = 1 /\ router.targets[b].priority = MaxPriority
          /\ router.targets[a].blockNumber = 1 /\ router.targets[b].blockNumber = MaxBlock
          /\ \E i, j \in DOMAIN router.ranking :
                i < j /\ router.ranking[i] = a /\ router.ranking[j] = b

\* C15: a request is forwarded at most retry-budget times, to no target
\* twice, always to the highest-ranked target not tried yet (the targets
\* contacted are the first ones of the ranking, in its order), and an answer
\* is the one of the last target contacted, after which none is contacted.
C15_BoundedOrderedFailover ==
    /\ [](/\ Len(router.contacted) <= router.budget
          /\ Cardinality(Range(router.contacted)) = Len(router.contacted)
          /\ Len(router.contacted) <= Len(router.ranking)
          /\ router.contacted = SubSeq(router.ranking, 1, Len(router.contacted))
          /\ router.resp = "upstream" => Len(router.contacted) >= 1)
    /\ [][/\ router.resp # "none" => router.contacted' = router.contacted
          /\ (router.resp = "none" /\ router.resp' = "upstream") =>
                router.contacted' = Append(router.contacted, NextTarget)]_vars

\* Budget 2, ranking [A, B, C]: A has failed, B has answered and C was not
\* contacted.
C15_Witness ==
    /\ router.budget = 2
    /\ Len(router.ranking) = 3
    /\ router.contacted = <<router.ranking[1], router.ranking[2]>>
    /\ router.resp = "upstream"
    /\ router.pc = "done"

\* C16: a gateway failure is returned after exactly min(retry budget, number
\* of targets) failed attempts; a request that is done has an answer or a
\* gateway failure, and one that is not done can go on; with every target
\* Unhealthy a request that is done has been forwarded at least once.
C16_ExhaustionIsAFailure ==
    /\ router.resp = "gateway failure" =>
          Len(router.contacted) = Min(router.budget, MaxTargets)
    /\ router.pc = "done" => router.resp \in {"upstream", "gateway failure"}
    /\ router.pc = "forwarding" => (ENABLED RouterForward(FALSE) \/ ENABLED RouterExhausted)
    /\ (router.pc = "forwarding" /\ Len(router.contacted) < Min(router.budget, MaxTargets))
          => ~ENABLED RouterExhausted
    /\ (router.pc = "done" /\ \A t \in Targets : ~router.targets[t].healthy)
          => Len(router.contacted) >= 1

\* Every target is Unhealthy and unreachable, the budget is 2: the request
\* has got a gateway failure after two attempts.
C16_Witness ==
    /\ \A t \in Targets : ~router.targets[t].healthy
    /\ router.budget = 2
    /\ router.resp = "gateway failure"
    /\ Len(router.contacted) = 2

====
